---- MODULE Spec2Model ----
(***************************************************************************)
(* State-machine model of QudoraServerHelper                                *)
(* (runtime/cudaq/platform/default/rest/helpers/qudora/                     *)
(* QudoraServerHelper.cpp).                                                 *)
(*                                                                          *)
(* A std::string is a sequence of one-character strings, so that            *)
(* concatenation, ends_with, splitting and trimming are computed.           *)
(* The world outside the helper is the environment variables HOME and       *)
(* CUDAQ_QUDORA_CREDENTIALS and the two files the helper can be pointed at. *)
(* Every public member function is one action; what it returned or threw    *)
(* is recorded in ret.                                                      *)
(***************************************************************************)
EXTENDS Integers, Sequences, FiniteSets, TLC

VARIABLES
  home,                     \* getenv("HOME")
  env,                      \* getenv("CUDAQ_QUDORA_CREDENTIALS")
  fs,                       \* the file system: path -> file
  backendConfig,            \* ServerHelper::backendConfig
  shots,                    \* ServerHelper::shots
  baseUrl,                  \* QudoraServerHelper::baseUrl
  machine,                  \* QudoraServerHelper::machine
  timeStr,                  \* QudoraServerHelper::timeStr
  refreshKey,               \* QudoraServerHelper::refreshKey
  apiKey,                   \* QudoraServerHelper::apiKey
  userSpecifiedCredentials, \* QudoraServerHelper::userSpecifiedCredentials
  credentialsPath,          \* QudoraServerHelper::credentialsPath
  circuitCodes,             \* the caller's batch, passed to createJob by reference
  ret                       \* the last call: its arguments and what it returned or threw

world  == <<home, env, fs, circuitCodes>>
config == <<backendConfig, shots, baseUrl, machine, userSpecifiedCredentials>>
cached == <<timeStr, refreshKey, apiKey, credentialsPath>>
vars   == <<home, env, fs, backendConfig, shots, baseUrl, machine, timeStr, refreshKey,
            apiKey, userSpecifiedCredentials, credentialsPath, circuitCodes, ret>>

(***************************************************************************)
(* Bounds of the model.                                                     *)
(***************************************************************************)
MaxLines   == 3   \* lines of a config file
MaxRecords == 2   \* records of a polling response
MaxBatch   == 2   \* circuits of a batch
MaxPairs   == 2   \* bitstring/count pairs of a result object

(***************************************************************************)
(* String literals of the source.                                           *)
(***************************************************************************)
EmptyStr       == <<>>
DefaultBaseUrl == <<"h","t","t","p","s",":","/","/","a","p","i",".","q","u","d","o","r","a",".","c","o","m","/","j","o","b","s","/">>
DefaultMachine == <<"Q","V","L","S","-","Q","1">>
JobIdQuery     == <<"?","j","o","b","_","i","d","=">>
IncludeResults == <<"&","i","n","c","l","u","d","e","_","r","e","s","u","l","t","s","=","T","r","u","e">>
Bearer         == <<"B","e","a","r","e","r"," ">>
AppJson        == <<"a","p","p","l","i","c","a","t","i","o","n","/","j","s","o","n">>
KeepAlive      == <<"k","e","e","p","-","a","l","i","v","e">>
AcceptAll      == <<"*","/","*">>
QirBitcode     == <<"Q","I","R","_","B","I","T","C","O","D","E">>
RegisterName   == <<"r","0","0","0","0","0">>
ConfigFileName == <<"/",".","q","u","d","o","r","a","_","c","o","n","f","i","g">>
K_key          == <<"k","e","y">>
K_refresh      == <<"r","e","f","r","e","s","h">>
K_time         == <<"t","i","m","e">>

(***************************************************************************)
(* Values of the world the model draws from.                                *)
(***************************************************************************)
HomeDir     == <<"/","h","o","m","e","/","u">>          \* the value of HOME, when it is set
DefaultPath == HomeDir \o ConfigFileName               \* the default file under that HOME
UserPath    == <<"/","t","m","p","/","c","r","e","d","s">>
Paths       == {DefaultPath, UserPath}

UrlNoSlash  == <<"h","t","t","p","s",":","/","/","a","p","i",".","q","u","d","o","r","a",".","c","o","m","/","j","o","b","s">>
UrlSlash    == <<"h","t","t","p","s",":","/","/","q","a",".","q","u","d","o","r","a",".","c","o","m","/">>
Machine2    == <<"Q","V","L","S","-","Q","2">>
EnvKey1     == <<"E","N","V","K","E","Y">>
ABC123      == <<"A","B","C","1","2","3">>
XYZ789      == <<"X","Y","Z","7","8","9">>

L_keyABC     == <<"k","e","y"," ",":"," ","A","B","C","1","2","3">>      \* key : ABC123
L_refreshXYZ == <<"r","e","f","r","e","s","h"," ",":"," ","X","Y","Z","7","8","9">> \* refresh : XYZ789
L_time       == <<"t","i","m","e"," ",":"," ","T","1">>                  \* time : T1
L_foo        == <<"f","o","o"," ",":"," ","b","a","r">>                  \* foo : bar
L_keyEmpty   == <<"k","e","y"," ",":"," ">>                              \* "key : "
L_refEmpty   == <<"r","e","f","r","e","s","h"," ",":"," ">>              \* "refresh : "
L_noColon    == <<"k","e","y">>                                          \* key
L_twoColons  == <<"k","e","y"," ",":"," ","A"," ",":"," ","B">>          \* key : A : B
L_keyK2      == <<"k","e","y",":","K","2">>                              \* key:K2
L_refreshR2  == <<" ","r","e","f","r","e","s","h"," ",":"," "," ","R","2"," ">> \* " refresh :  R2 "
L_blank      == <<>>                                                     \* an empty line

Unset     == [set |-> FALSE, value |-> EmptyStr]
SetTo(v)  == [set |-> TRUE, value |-> v]
NoFile    == [exists |-> FALSE, lines |-> <<>>]
FileOf(l) == [exists |-> TRUE, lines |-> l]

(***************************************************************************)
(* std::string helpers.                                                     *)
(***************************************************************************)
\* std::string::ends_with(c) for a one-character suffix
EndsWith(s, c) == Len(s) > 0 /\ s[Len(s)] = c

IsSpace(c) == c \in {" ", "\t"}

RECURSIVE LTrim(_)
LTrim(s) == IF s # <<>> /\ IsSpace(Head(s)) THEN LTrim(Tail(s)) ELSE s

RECURSIVE RTrim(_)
RTrim(s) ==
  IF s # <<>> /\ IsSpace(s[Len(s)]) THEN RTrim(SubSeq(s, 1, Len(s) - 1)) ELSE s

\* cudaq::trim: strips the whitespace on both sides
Trim(s) == RTrim(LTrim(s))

\* cudaq::split(s, delim): the parts of s between the delimiters
RECURSIVE SplitFrom(_, _, _, _)
SplitFrom(s, delim, parts, cur) ==
  IF s = <<>> THEN Append(parts, cur)
  ELSE IF Head(s) = delim THEN SplitFrom(Tail(s), delim, Append(parts, cur), <<>>)
  ELSE SplitFrom(Tail(s), delim, parts, Append(cur, Head(s)))

Split(s, delim) == SplitFrom(s, delim, <<>>, <<>>)

\* cudaq::fileExists, in the file system files
fileExists(files, path) == path \in DOMAIN files /\ files[path].exists

\* std::ifstream(path) read to the end, then split into lines: a file is
\* kept as the sequence of its lines, and one that cannot be opened reads
\* as empty
ReadLines(files, path) == IF fileExists(files, path) THEN files[path].lines ELSE <<>>

(***************************************************************************)
(* Credential resolution.                                                   *)
(***************************************************************************)
Ok(st)        == [st EXCEPT !.outcome = "ok"]
Throw(st, e)  == [st EXCEPT !.outcome = "error", !.err = e]
\* the process ends inside the call: nothing is returned and nothing thrown
Crash(st)     == [st EXCEPT !.outcome = "crash"]
NoErr         == [kind |-> "none", names |-> EmptyStr]
Creds(k, r, t) ==
  [outcome |-> "ok", err |-> NoErr, apiKey |-> k, refreshKey |-> r, timeStr |-> t,
   path |-> EmptyStr]

\* the final checks of findApiKeyInFileQudora
CheckNonEmpty(st, path) ==
  IF st.apiKey = EmptyStr
    THEN Throw(st, [kind |-> "EmptyApiKey", names |-> path])
  ELSE IF st.refreshKey = EmptyStr
    THEN Throw(st, [kind |-> "EmptyRefreshKey", names |-> path])
  ELSE st

\* ParseLine without the final else: an unrecognised key is skipped
ParseLineLenient(st, l, path) ==
  LET keyAndValue == Split(l, ":") IN
  IF Len(keyAndValue) # 2
    THEN Throw(st, [kind |-> "IllFormed", names |-> path])
  ELSE LET k == Trim(keyAndValue[1])
           v == Trim(keyAndValue[2]) IN
       IF k = K_key THEN [st EXCEPT !.apiKey = v]
       ELSE IF k = K_refresh THEN [st EXCEPT !.refreshKey = v]
       ELSE IF k = K_time THEN [st EXCEPT !.timeStr = v]
       ELSE st

\* the body of the loop of findApiKeyInFileQudora, for one line; the
\* references are assigned as the lines are read
ParseLine(st, l, path) ==
  LET keyAndValue == Split(l, ":") IN
  IF Len(keyAndValue) # 2
    THEN Throw(st, [kind |-> "IllFormed", names |-> path])
  ELSE LET k == Trim(keyAndValue[1])
           v == Trim(keyAndValue[2]) IN
       IF k = K_key THEN [st EXCEPT !.apiKey = v]
       ELSE IF k = K_refresh THEN [st EXCEPT !.refreshKey = v]
       ELSE IF k = K_time THEN [st EXCEPT !.timeStr = v]
       ELSE Throw(st, [kind |-> "UnknownKey", names |-> k])

RECURSIVE ParseLines(_, _, _)
ParseLines(st, lines, path) ==
  IF st.outcome = "error" THEN st
  ELSE IF lines = <<>> THEN CheckNonEmpty(st, path)
  ELSE ParseLines(ParseLine(st, Head(lines), path), Tail(lines), path)

\* findApiKeyInFileQudora(apiKey, path, refreshKey, timeStr): st holds the
\* three references on entry, the result holds them on return or throw
findApiKeyInFileQudora(files, st, path) == ParseLines(st, ReadLines(files, path), path)

\* std::string(getenv("HOME")) when HOME is not set: the construction of a
\* std::string from a null pointer is undefined. libstdc++ throws
\* std::logic_error before anything is assigned; a build whose constructor
\* takes the length of the null pointer ends the process there.
NullString(st) ==
  {Throw(st, [kind |-> "LogicError", names |-> EmptyStr]), Crash(st)}

\* SearchIn with the default file tried first, whatever else is set
SearchInDefaultFirst(h, e, files, k, r, t, userSpecifiedConfig) ==
  LET st       == Creds(k, r, t)
      hwConfig == h.value \o ConfigFileName IN
  IF h.set /\ fileExists(files, hwConfig)
    THEN {LET res == ParseLines(st, ReadLines(files, hwConfig), hwConfig) IN
          IF res.outcome = "ok" THEN [res EXCEPT !.path = hwConfig] ELSE res}
  ELSE IF e.set
    THEN {[st EXCEPT !.apiKey = e.value, !.path = e.value]}
  ELSE IF userSpecifiedConfig # EmptyStr
    THEN {[st EXCEPT !.path = userSpecifiedConfig]}
  ELSE IF ~h.set THEN NullString(st)
  ELSE {Throw(st, [kind |-> "NoConfigFile", names |-> hwConfig])}

\* searchAPIKeyQudora(key, refreshKey, timeStr, userSpecifiedConfig) under
\* HOME h, the override e and the file system files: the outcomes the call
\* can have, each with the references after the call and the path returned
\* or the error thrown. HOME is read in the last branch only.
SearchIn(h, e, files, k, r, t, userSpecifiedConfig) ==
  LET st       == Creds(k, r, t)
      hwConfig == h.value \o ConfigFileName IN
  IF e.set
    THEN {[st EXCEPT !.apiKey = e.value, !.path = e.value]}
  ELSE IF userSpecifiedConfig # EmptyStr
    THEN {[st EXCEPT !.path = userSpecifiedConfig]}
  ELSE IF ~h.set THEN NullString(st)
  ELSE IF fileExists(files, hwConfig)
    THEN {LET res == findApiKeyInFileQudora(files, st, hwConfig) IN
          IF res.outcome = "ok" THEN [res EXCEPT !.path = hwConfig] ELSE res}
  ELSE {Throw(st, [kind |-> "NoConfigFile", names |-> hwConfig])}

searchAPIKeyQudora(k, r, t, userSpecifiedConfig) ==
  SearchIn(home, env, fs, k, r, t, userSpecifiedConfig)

Headers(k) ==
  [Authorization |-> Bearer \o k, ContentType |-> AppJson,
   Connection |-> KeepAlive, Accept |-> AcceptAll]

\* generateRequestHeader: resolves into fresh local strings; the outcomes
\* the call can have
generateRequestHeader ==
  {IF res.outcome = "ok"
     THEN [outcome |-> "ok", err |-> NoErr, value |-> Headers(res.apiKey), creds |-> res]
     ELSE [outcome |-> res.outcome, err |-> res.err] :
   res \in searchAPIKeyQudora(EmptyStr, EmptyStr, EmptyStr, userSpecifiedCredentials)}

(***************************************************************************)
(* Characters and numbers.                                                  *)
(*                                                                          *)
(* The characters of the model are the printable ASCII characters other     *)
(* than the grave accent, and TAB, LF, FF and CR. A std::uint64_t or        *)
(* std::size_t is kept as its decimal digits, most significant first, with  *)
(* no leading zero: it can reach 2^64 - 1.                                  *)
(***************************************************************************)
\* U+0020 .. U+005F
Low == <<" ","!","\"","#","$","%","&","'","(",")","*","+",",","-",".","/",
         "0","1","2","3","4","5","6","7","8","9",":",";","<","=",">","?",
         "@","A","B","C","D","E","F","G","H","I","J","K","L","M","N","O",
         "P","Q","R","S","T","U","V","W","X","Y","Z","[","\\","]","^","_">>
\* U+0061 .. U+007E
High == <<"a","b","c","d","e","f","g","h","i","j","k","l","m","n","o",
          "p","q","r","s","t","u","v","w","x","y","z","{","|","}","~">>
\* the control characters: TAB, LF, FF, CR
Controls == {"\t", "\n", "\f", "\r"}

InLow(c)  == \E i \in 1..Len(Low) : Low[i] = c
InHigh(c) == \E i \in 1..Len(High) : High[i] = c
IsChar(c) == InLow(c) \/ InHigh(c) \/ c \in Controls

\* the code point of a character
CodeOf(c) ==
  IF c = "\t" THEN 9 ELSE IF c = "\n" THEN 10
  ELSE IF c = "\f" THEN 12 ELSE IF c = "\r" THEN 13
  ELSE IF InLow(c) THEN 31 + (CHOOSE i \in 1..Len(Low) : Low[i] = c)
  ELSE 96 + (CHOOSE i \in 1..Len(High) : High[i] = c)

\* the code points that have a character, and the character
HasChar(cp) == cp \in {9, 10, 12, 13} \/ cp \in 32..95 \/ cp \in 97..126
CharOf(cp) ==
  IF cp = 9 THEN "\t" ELSE IF cp = 10 THEN "\n"
  ELSE IF cp = 12 THEN "\f" ELSE IF cp = 13 THEN "\r"
  ELSE IF cp <= 95 THEN Low[cp - 31] ELSE High[cp - 96]

\* s[i], or the empty string (which is no character) past the end
At(s, i) == IF i >= 1 /\ i <= Len(s) THEN s[i] ELSE ""

\* std::string operator<, as std::map orders the keys of an object
RECURSIVE StrLess(_, _)
StrLess(a, b) ==
  IF b = <<>> THEN FALSE
  ELSE IF a = <<>> THEN TRUE
  ELSE IF Head(a) = Head(b) THEN StrLess(Tail(a), Tail(b))
  ELSE CodeOf(Head(a)) < CodeOf(Head(b))

Digits == <<"0","1","2","3","4","5","6","7","8","9">>

DigitValue(c) == CHOOSE d \in 0..9 : Digits[d + 1] = c

IsDigit(c) == \E d \in 0..9 : Digits[d + 1] = c

\* the decimal text of a non-negative integer
RECURSIVE NatToStr(_)
NatToStr(n) == IF n < 10 THEN <<Digits[n + 1]>> ELSE NatToStr(n \div 10) \o <<Digits[(n % 10) + 1]>>

HexLower == <<"a","b","c","d","e","f">>
HexUpper == <<"A","B","C","D","E","F">>
IsHex(c) == IsDigit(c) \/ \E d \in 1..6 : HexLower[d] = c \/ HexUpper[d] = c
HexValue(c) ==
  IF IsDigit(c) THEN DigitValue(c)
  ELSE 9 + (CHOOSE d \in 1..6 : HexLower[d] = c \/ HexUpper[d] = c)

\* digits without their leading zeros; zero keeps one digit
RECURSIVE StripZeros(_)
StripZeros(d) == IF Len(d) > 1 /\ Head(d) = "0" THEN StripZeros(Tail(d)) ELSE d

\* digits without their trailing zeros
RECURSIVE DropTrailingZeros(_)
DropTrailingZeros(d) ==
  IF d # <<>> /\ d[Len(d)] = "0" THEN DropTrailingZeros(SubSeq(d, 1, Len(d) - 1)) ELSE d

Zeros(n) == [i \in 1..n |-> "0"]

\* a <= b, on digits without leading zeros
RECURSIVE DecLeqFrom(_, _, _)
DecLeqFrom(a, b, i) ==
  IF i > Len(a) THEN TRUE
  ELSE IF a[i] = b[i] THEN DecLeqFrom(a, b, i + 1)
  ELSE DigitValue(a[i]) < DigitValue(b[i])

DecLeq(a, b) == Len(a) < Len(b) \/ (Len(a) = Len(b) /\ DecLeqFrom(a, b, 1))

\* a - b for a >= b, column by column from the right
RECURSIVE DecSubFrom(_, _, _, _, _)
DecSubFrom(a, b, i, borrow, acc) ==
  IF i = 0 THEN acc
  ELSE LET d == DigitValue(a[i]) - DigitValue(b[i]) - borrow IN
       DecSubFrom(a, b, i - 1, IF d < 0 THEN 1 ELSE 0,
                  <<Digits[((d + 10) % 10) + 1]>> \o acc)

DecSub(a, b) ==
  StripZeros(DecSubFrom(a, Zeros(Len(a) - Len(b)) \o b, Len(a), 0, <<>>))

MaxUInt64 == <<"1","8","4","4","6","7","4","4","0","7","3","7","0","9","5","5","1","6","1","5">>  \* 2^64 - 1
TwoTo64   == <<"1","8","4","4","6","7","4","4","0","7","3","7","0","9","5","5","1","6","1","6">>  \* 2^64
TwoTo63   == <<"9","2","2","3","3","7","2","0","3","6","8","5","4","7","7","5","8","0","8">>      \* 2^63

(***************************************************************************)
(* nlohmann::json.                                                          *)
(*                                                                          *)
(* A JSON value is a record with its type: null, boolean (bool), unsigned   *)
(* (digits), integer (digits: the value is minus the digits; the lexer      *)
(* gives this type to every integer written with a minus sign, -0           *)
(* included), float, string (str), array (elems) or object (members, a     *)
(* function of the keys). A float is kept in decimal as neg, digits and     *)
(* exp10, for the value digits * 10^exp10 with neither leading nor trailing *)
(* zeros in digits (none at all for zero). Floats are covered as far as     *)
(* decimal and binary agree on them; see FloatOf.                           *)
(***************************************************************************)
JNull          == [type |-> "null"]
JBool(b)       == [type |-> "boolean", bool |-> b]
JUnsigned(d)   == [type |-> "unsigned", digits |-> d]
JInteger(d)    == [type |-> "integer", digits |-> d]
JFloat(n, d, e) == [type |-> "float", neg |-> n, digits |-> d, exp10 |-> e]
JString(s)     == [type |-> "string", str |-> s]
JArray(e)      == [type |-> "array", elems |-> e]
JObject(m)     == [type |-> "object", members |-> m]

\* serializer::dump_escaped with ensure_ascii off: the quote, the backslash
\* and the control characters are escaped, every other character is copied
EscapeChar(c) ==
  IF c = "\"" THEN <<"\\", "\"">>
  ELSE IF c = "\\" THEN <<"\\", "\\">>
  ELSE IF c = "\t" THEN <<"\\", "t">>
  ELSE IF c = "\n" THEN <<"\\", "n">>
  ELSE IF c = "\f" THEN <<"\\", "f">>
  ELSE IF c = "\r" THEN <<"\\", "r">>
  ELSE <<c>>

RECURSIVE Escape(_)
Escape(s) == IF s = <<>> THEN <<>> ELSE EscapeChar(Head(s)) \o Escape(Tail(s))

Quoted(s) == <<"\"">> \o Escape(s) \o <<"\"">>

\* the keys of an object in the order std::map keeps them
RECURSIVE SortedKeys(_)
SortedKeys(keys) ==
  IF keys = {} THEN <<>>
  ELSE LET k == CHOOSE x \in keys : \A y \in keys \ {x} : StrLess(x, y) IN
       <<k>> \o SortedKeys(keys \ {k})

\* to_string(json) = json::dump(): compact, the members of an object in the
\* order of their keys. (The text of a float, which comes out of the
\* shortest-digits search of the library, is not covered.)
RECURSIVE JsonDump(_), DumpElements(_, _), DumpMembers(_, _, _)
JsonDump(j) ==
  CASE j.type = "null"     -> <<"n","u","l","l">>
    [] j.type = "boolean"  -> IF j.bool THEN <<"t","r","u","e">> ELSE <<"f","a","l","s","e">>
    [] j.type = "unsigned" -> j.digits
    [] j.type = "integer"  -> IF j.digits = <<"0">> THEN <<"0">> ELSE <<"-">> \o j.digits
    [] j.type = "string"   -> Quoted(j.str)
    [] j.type = "array"    -> <<"[">> \o DumpElements(j.elems, 1) \o <<"]">>
    [] j.type = "object"   ->
         <<"{">> \o DumpMembers(j.members, SortedKeys(DOMAIN j.members), 1) \o <<"}">>

DumpElements(elems, i) ==
  IF i > Len(elems) THEN <<>>
  ELSE (IF i > 1 THEN <<",">> ELSE <<>>) \o JsonDump(elems[i]) \o DumpElements(elems, i + 1)

DumpMembers(members, keys, i) ==
  IF i > Len(keys) THEN <<>>
  ELSE (IF i > 1 THEN <<",">> ELSE <<>>) \o Quoted(keys[i]) \o <<":">>
       \o JsonDump(members[keys[i]]) \o DumpMembers(members, keys, i + 1)

\* the three results of reading a text: a value and the position after it,
\* a parse error, or a text the model does not cover
Got(v, i) == [st |-> "ok", val |-> v, next |-> i]
Err       == [st |-> "error"]
Outside   == [st |-> "outside"]

JsonWs(c) == c \in {" ", "\t", "\n", "\r"}

RECURSIVE SkipWs(_, _)
SkipWs(s, i) == IF i <= Len(s) /\ JsonWs(s[i]) THEN SkipWs(s, i + 1) ELSE i

\* lexer::get_codepoint: the four hex digits from s[i] on, or -1
Hex4(s, i) ==
  IF \A k \in 0..3 : IsHex(At(s, i + k))
    THEN 4096 * HexValue(s[i]) + 256 * HexValue(s[i + 1])
         + 16 * HexValue(s[i + 2]) + HexValue(s[i + 3])
    ELSE -1

IsHighSurrogate(cp) == cp >= 55296 /\ cp <= 56319   \* U+D800 .. U+DBFF
IsLowSurrogate(cp)  == cp >= 56320 /\ cp <= 57343   \* U+DC00 .. U+DFFF

\* lexer::scan_string from the character after the opening quote: the
\* characters up to the closing quote, with the escapes replaced. A raw
\* control character is an error. An escape for a code point that has no
\* character in the model (\b, most of \uXXXX, every surrogate pair) is not
\* covered. ScanEscape reads the escape whose backslash is s[i],
\* ScanCodepoint the \uXXXX at s[i] whose digits give cp.
RECURSIVE ScanString(_, _, _), ScanEscape(_, _, _, _), ScanCodepoint(_, _, _, _)
ScanString(s, i, acc) ==
  IF i > Len(s) THEN Err
  ELSE IF s[i] = "\"" THEN Got(acc, i + 1)
  ELSE IF s[i] \in Controls THEN Err
  ELSE IF s[i] = "\\" THEN ScanEscape(s, i, acc, At(s, i + 1))
  ELSE ScanString(s, i + 1, Append(acc, s[i]))

ScanEscape(s, i, acc, e) ==
  IF e \in {"\"", "\\", "/"} THEN ScanString(s, i + 2, Append(acc, e))
  ELSE IF e = "b" THEN Outside
  ELSE IF e = "f" THEN ScanString(s, i + 2, Append(acc, "\f"))
  ELSE IF e = "n" THEN ScanString(s, i + 2, Append(acc, "\n"))
  ELSE IF e = "r" THEN ScanString(s, i + 2, Append(acc, "\r"))
  ELSE IF e = "t" THEN ScanString(s, i + 2, Append(acc, "\t"))
  ELSE IF e = "u" THEN ScanCodepoint(s, i, acc, Hex4(s, i + 2))
  ELSE Err

ScanCodepoint(s, i, acc, cp) ==
  IF cp = -1 THEN Err
  ELSE IF IsHighSurrogate(cp) THEN
    IF At(s, i + 6) = "\\" /\ At(s, i + 7) = "u" /\ IsLowSurrogate(Hex4(s, i + 8))
      THEN Outside
      ELSE Err
  ELSE IF IsLowSurrogate(cp) THEN Err
  ELSE IF HasChar(cp) THEN ScanString(s, i + 6, Append(acc, CharOf(cp)))
  ELSE Outside

\* the first position from i on that holds no digit
RECURSIVE DigitsEnd(_, _)
DigitsEnd(s, i) == IF IsDigit(At(s, i)) THEN DigitsEnd(s, i + 1) ELSE i

\* the value of an exponent of up to three digits
ExponentValue(t) ==
  IF Len(t) = 3 THEN 100 * DigitValue(t[1]) + 10 * DigitValue(t[2]) + DigitValue(t[3])
  ELSE IF Len(t) = 2 THEN 10 * DigitValue(t[1]) + DigitValue(t[2])
  ELSE DigitValue(t[1])

\* an exponent of more than three significant digits
LongExponent(d) == Len(StripZeros(d)) > 3

\* the exponent with sign sign and digits d (0 when there is none, and for a
\* long one)
ExponentOf(sign, d) ==
  IF d = <<>> \/ LongExponent(d) THEN 0
  ELSE IF sign = "-" THEN 0 - ExponentValue(StripZeros(d))
  ELSE ExponentValue(StripZeros(d))

\* the significant digits of a mantissa written as the digits all: without
\* leading and trailing zeros, none for zero
SigDigits(all) ==
  IF DropTrailingZeros(all) = <<>> THEN <<>> ELSE StripZeros(DropTrailingZeros(all))

\* the float of sign neg, significant digits d and decimal exponent e, for
\* the value d * 10^e. Decimal and binary agree on a number of at most
\* FloatDigits significant digits that is below 10^FloatDigits (itself below
\* 2^53) in magnitude, and zero is zero whatever its exponent; a number of
\* more digits, a larger one, one that vanishes in binary or one with a long
\* exponent is not covered.
FloatDigits == 15
MinFloatExp == -300
DecimalFloat(neg, d, e, long) ==
  IF d = <<>> THEN Got(JFloat(neg, <<>>, 0), 0)
  ELSE IF long THEN Outside
  ELSE IF Len(d) <= FloatDigits /\ Len(d) + e <= FloatDigits /\ Len(d) + e >= MinFloatExp
    THEN Got(JFloat(neg, d, e), 0)
  ELSE Outside

\* strtod of a number token with integer part, fraction and exponent: the
\* double, in decimal
FloatOf(neg, intPart, frac, exp, long) ==
  DecimalFloat(neg, SigDigits(intPart \o frac),
               exp + Len(intPart) - Len(DropTrailingZeros(intPart \o frac)), long)

\* a result with the position after it set
EndingAt(r, i) == IF r.st = "ok" THEN Got(r.val, i) ELSE r

\* the value of the number token that ends before s[i4], with its integer
\* part in s[i0..i1-1], its fraction (if any) in s[i1+1..i2-1], and the
\* digits of its exponent (if any) in s[i3..i4-1]. Without fraction and
\* exponent the token is an unsigned integer (no minus) or an integer
\* (minus) when it fits in 64 bits, and a float otherwise.
NumberOf(s, neg, i0, i1, i2, i3, i4) ==
  IF i2 = i1 /\ i4 = i2 /\ ~neg /\ DecLeq(SubSeq(s, i0, i1 - 1), MaxUInt64)
    THEN Got(JUnsigned(SubSeq(s, i0, i1 - 1)), i4)
  ELSE IF i2 = i1 /\ i4 = i2 /\ neg /\ DecLeq(SubSeq(s, i0, i1 - 1), TwoTo63)
    THEN Got(JInteger(SubSeq(s, i0, i1 - 1)), i4)
  ELSE EndingAt(FloatOf(neg, SubSeq(s, i0, i1 - 1), SubSeq(s, i1 + 1, i2 - 1),
                        ExponentOf(At(s, i3 - 1), SubSeq(s, i3, i4 - 1)),
                        LongExponent(SubSeq(s, i3, i4 - 1))),
                i4)

\* lexer::scan_number at s[i], a minus sign or a digit: an optional minus, an
\* integer part without a leading zero (ScanInteger), an optional fraction
\* of at least one digit (ScanFraction), an optional exponent of at least
\* one digit with an optional sign (ScanExponent)
ScanExponent(s, neg, i0, i1, i2) ==
  IF At(s, i2) \notin {"e", "E"} THEN NumberOf(s, neg, i0, i1, i2, i2, i2)
  ELSE IF At(s, i2 + 1) \in {"+", "-"}
    THEN IF IsDigit(At(s, i2 + 2))
           THEN NumberOf(s, neg, i0, i1, i2, i2 + 2, DigitsEnd(s, i2 + 2))
           ELSE Err
  ELSE IF IsDigit(At(s, i2 + 1))
    THEN NumberOf(s, neg, i0, i1, i2, i2 + 1, DigitsEnd(s, i2 + 1))
  ELSE Err

ScanFraction(s, neg, i0, i1) ==
  IF At(s, i1) # "." THEN ScanExponent(s, neg, i0, i1, i1)
  ELSE IF IsDigit(At(s, i1 + 1)) THEN ScanExponent(s, neg, i0, i1, DigitsEnd(s, i1 + 1))
  ELSE Err

ScanInteger(s, neg, i0) ==
  IF ~IsDigit(At(s, i0)) THEN Err
  ELSE IF s[i0] = "0" THEN ScanFraction(s, neg, i0, i0 + 1)
  ELSE ScanFraction(s, neg, i0, DigitsEnd(s, i0))

ScanNumber(s, i) ==
  IF At(s, i) = "-" THEN ScanInteger(s, TRUE, i + 1) ELSE ScanInteger(s, FALSE, i)

\* the literal lit stands at s[i]
LiteralAt(s, i, lit) == \A k \in 1..Len(lit) : At(s, i + k - 1) = lit[k]

\* a string token as a value
StringValue(r) == IF r.st = "ok" THEN Got(JString(r.val), r.next) ELSE r

\* parser::sax_parse_internal. ParseValue: the value that starts at or after
\* s[i] (ValueAt: at s[j], past the whitespace). ParseElements: the elements
\* of an array after its bracket or a comma (ElementEnd: after the element
\* v). ParseMembers: the members of an object after its brace or a comma, a
\* repeated key keeping its last value (MemberKey: the key at s[i];
\* MemberColon: after the key k; MemberValue: the value v of the key;
\* MemberEnd: after the member, at s[i]).
RECURSIVE ParseValue(_, _), ValueAt(_, _), ParseElements(_, _, _), ElementEnd(_, _, _),
          ParseMembers(_, _, _), MemberKey(_, _, _), MemberColon(_, _, _),
          MemberValue(_, _, _, _), MemberEnd(_, _, _)
ParseValue(s, i) == ValueAt(s, SkipWs(s, i))

ValueAt(s, j) ==
  IF At(s, j) = "{" THEN
    IF At(s, SkipWs(s, j + 1)) = "}" THEN Got(JObject(<<>>), SkipWs(s, j + 1) + 1)
    ELSE ParseMembers(s, j + 1, <<>>)
  ELSE IF At(s, j) = "[" THEN
    IF At(s, SkipWs(s, j + 1)) = "]" THEN Got(JArray(<<>>), SkipWs(s, j + 1) + 1)
    ELSE ParseElements(s, j + 1, <<>>)
  ELSE IF At(s, j) = "\"" THEN StringValue(ScanString(s, j + 1, <<>>))
  ELSE IF At(s, j) = "-" \/ IsDigit(At(s, j)) THEN ScanNumber(s, j)
  ELSE IF LiteralAt(s, j, <<"t","r","u","e">>) THEN Got(JBool(TRUE), j + 4)
  ELSE IF LiteralAt(s, j, <<"f","a","l","s","e">>) THEN Got(JBool(FALSE), j + 5)
  ELSE IF LiteralAt(s, j, <<"n","u","l","l">>) THEN Got(JNull, j + 4)
  ELSE Err

ParseElements(s, i, elems) == ElementEnd(s, elems, ParseValue(s, i))

ElementEnd(s, elems, v) ==
  IF v.st # "ok" THEN v
  ELSE IF At(s, SkipWs(s, v.next)) = ","
    THEN ParseElements(s, SkipWs(s, v.next) + 1, Append(elems, v.val))
  ELSE IF At(s, SkipWs(s, v.next)) = "]"
    THEN Got(JArray(Append(elems, v.val)), SkipWs(s, v.next) + 1)
  ELSE Err

ParseMembers(s, i, obj) == MemberKey(s, obj, SkipWs(s, i))

MemberKey(s, obj, i) ==
  IF At(s, i) # "\"" THEN Err ELSE MemberColon(s, obj, ScanString(s, i + 1, <<>>))

MemberColon(s, obj, k) ==
  IF k.st # "ok" THEN k
  ELSE IF At(s, SkipWs(s, k.next)) # ":" THEN Err
  ELSE MemberValue(s, obj, k.val, ParseValue(s, SkipWs(s, k.next) + 1))

MemberValue(s, obj, key, v) ==
  IF v.st # "ok" THEN v
  ELSE MemberEnd(s, (key :> v.val) @@ obj, SkipWs(s, v.next))

MemberEnd(s, obj, i) ==
  IF At(s, i) = "}" THEN Got(JObject(obj), i + 1)
  ELSE IF At(s, i) = "," THEN ParseMembers(s, i + 1, obj)
  ELSE Err

\* the end of the text after the one value v
EndOfInput(s, v) ==
  IF v.st # "ok" THEN v
  ELSE IF SkipWs(s, v.next) > Len(s) THEN v
  ELSE Err

\* nlohmann::json::parse: one value, then nothing but whitespace. (A text
\* whose first character is none of the model could open with a byte order
\* mark, which the library skips: not covered.)
JsonParse(s) ==
  IF s # <<>> /\ ~IsChar(s[1]) THEN Outside ELSE EndOfInput(s, ParseValue(s, 1))

\* json::items(): the members of an object under their keys, the elements
\* of an array under their indices written in decimal, nothing for null, and
\* any other value alone under the empty key
Items(j) ==
  IF j.type = "object" THEN j.members
  ELSE IF j.type = "array"
    THEN [k \in {NatToStr(n - 1) : n \in 1..Len(j.elems)} |->
            j.elems[CHOOSE n \in 1..Len(j.elems) : NatToStr(n - 1) = k]]
  ELSE IF j.type = "null" THEN <<>>
  ELSE (<<>> :> j)

IsNumber(j) == j.type \in {"unsigned", "integer", "float"}

\* the integer part of a float, sign aside
Truncated(j) ==
  IF j.digits = <<>> \/ Len(j.digits) + j.exp10 <= 0 THEN <<"0">>
  ELSE IF j.exp10 >= 0 THEN j.digits \o Zeros(j.exp10)
  ELSE SubSeq(j.digits, 1, Len(j.digits) + j.exp10)

\* json -> std::size_t of a number (get<std::size_t>, a static_cast): an
\* unsigned integer as it is, a negative integer modulo 2^64, a float
\* truncated. The cast of a float of -1 or below is undefined: the outcomes
\* are that of x86-64 (the truncated value modulo 2^64) and that of a
\* saturating conversion (0).
ToSizeT(j) ==
  IF j.type = "unsigned" THEN {j.digits}
  ELSE IF j.type = "integer"
    THEN IF j.digits = <<"0">> THEN {<<"0">>} ELSE {DecSub(TwoTo64, j.digits)}
  ELSE IF ~j.neg \/ Truncated(j) = <<"0">> THEN {Truncated(j)}
  ELSE {DecSub(TwoTo64, Truncated(j)), <<"0">>}

\* the loop over results.items(): reg_counts[bitstring] = count, where the
\* assignment converts count to std::size_t and throws a type error when it
\* is no number. The outcomes of the loop: the dictionary it fills, or the
\* throw (which of the items is visited first does not change them).
RECURSIVE CopyCounts(_, _, _)
CopyCounts(items, keys, reg_counts) ==
  IF keys = {} THEN {[ok |-> TRUE, counts |-> reg_counts]}
  ELSE LET bitstring == CHOOSE b \in keys : TRUE
           count     == items[bitstring] IN
       IF ~IsNumber(count) THEN {[ok |-> FALSE]}
       ELSE UNION {CopyCounts(items, keys \ {bitstring}, (bitstring :> n) @@ reg_counts) :
                     n \in ToSizeT(count)}

(***************************************************************************)
(* The member functions of QudoraServerHelper.                              *)
(***************************************************************************)
\* the process has not ended inside a call
Running == ~("outcome" \in DOMAIN ret /\ ret.outcome = "crash")

\* NormalizeUrl without the separator appended
NormalizeUrlNone(url) == url

\* baseUrl = iter->second; if (!baseUrl.ends_with("/")) baseUrl += "/";
NormalizeUrl(url) == IF EndsWith(url, "/") THEN url ELSE url \o <<"/">>

Has(cfg, k) == k \in DOMAIN cfg

\* parseConfigForCommonParams, of the base class, touches none of the
\* fields modelled
initialize(cfg) ==
  /\ Running
  /\ backendConfig' = cfg
  /\ machine' = IF Has(cfg, "machine") THEN cfg["machine"] ELSE machine
  /\ baseUrl' = IF Has(cfg, "url") THEN NormalizeUrl(cfg["url"]) ELSE baseUrl
  /\ userSpecifiedCredentials' =
       IF Has(cfg, "credentials") THEN cfg["credentials"] ELSE userSpecifiedCredentials
  /\ ret' = [op |-> "initialize", arg |-> cfg]
  /\ UNCHANGED <<world, shots, cached>>

\* JobMessage with the default machine as the target
JobMessageFixedTarget(circuitCode) ==
  [name |-> circuitCode.name, language |-> QirBitcode, shots |-> <<shots>>,
   target |-> DefaultMachine, input_data |-> <<circuitCode.code>>,
   backend_settings |-> "null"]

\* the job document createJob builds for one circuit
JobMessage(circuitCode) ==
  [name |-> circuitCode.name, language |-> QirBitcode, shots |-> <<shots>>,
   target |-> machine, input_data |-> <<circuitCode.code>>,
   backend_settings |-> "null"]

createJob ==
  LET messages == [i \in 1..Len(circuitCodes) |-> JobMessage(circuitCodes[i])] IN
  \E res \in searchAPIKeyQudora(apiKey, refreshKey, timeStr, userSpecifiedCredentials),
     hdr \in generateRequestHeader :
  /\ Running
  /\ apiKey' = res.apiKey
  /\ refreshKey' = res.refreshKey
  /\ timeStr' = res.timeStr
  /\ credentialsPath' = IF res.outcome = "ok" THEN res.path ELSE credentialsPath
  /\ ret' = IF res.outcome # "ok"
              THEN [op |-> "createJob", arg |-> circuitCodes,
                    outcome |-> res.outcome, err |-> res.err]
            ELSE IF hdr.outcome # "ok"
              THEN [op |-> "createJob", arg |-> circuitCodes,
                    outcome |-> hdr.outcome, err |-> hdr.err]
            ELSE [op |-> "createJob", arg |-> circuitCodes,
                  outcome |-> "ok", creds |-> hdr.creds,
                  value |-> <<baseUrl, hdr.value, messages>>]
  /\ UNCHANGED <<world, config>>

\* extractJobId: to_string of the whole response
extractJobId(postResponse) == JsonDump(postResponse)

GetJobPath(jobId) == baseUrl \o JobIdQuery \o jobId \o IncludeResults

constructGetJobPathOfResponse(postResponse) ==
  /\ Running
  /\ ret' = [op |-> "constructGetJobPath", from |-> "response", arg |-> postResponse,
             outcome |-> "ok", value |-> GetJobPath(extractJobId(postResponse))]
  /\ UNCHANGED <<world, config, cached>>

constructGetJobPath(jobId) ==
  /\ Running
  /\ ret' = [op |-> "constructGetJobPath", from |-> "id", arg |-> jobId,
             outcome |-> "ok", value |-> GetJobPath(jobId)]
  /\ UNCHANGED <<world, config, cached>>

\* the decision of jobIsDone on the status it read
Classify(status) ==
  IF status = "Failed" THEN [outcome |-> "error", err |-> "JobFailed"]
  ELSE IF status = "Canceled" \/ status = "Deleted" \/ status = "Cancelling"
    THEN [outcome |-> "error", err |-> "JobCancelled"]
  ELSE [outcome |-> "ok", value |-> (status = "Completed")]

\* StatusRead on the last record of the response
StatusReadLast(getJobResponse) == getJobResponse[Len(getJobResponse)].status

\* getJobResponse[0]["status"]
StatusRead(getJobResponse) == getJobResponse[1].status

jobIsDone(getJobResponse) ==
  /\ Running
  /\ ret' = [op |-> "jobIsDone", arg |-> getJobResponse]
              @@ Classify(StatusRead(getJobResponse))
  /\ UNCHANGED <<world, config, cached>>

\* postJobResponse[0]["result"][0]
ResultRead(postJobResponse) == postJobResponse[1].result[1]

\* SampleResult with every occurrence of a bitstring tallied as one
SampleResultTally(reg_counts) ==
  <<[counts |-> [b \in DOMAIN reg_counts |-> <<"1">>], registerName |-> RegisterName]>>

\* the sample_result: one ExecutionResult of the counts, registered as r00000
SampleResult(reg_counts) ==
  <<[counts |-> reg_counts, registerName |-> RegisterName]>>

\* the outcome of the loop of processResults as the call returns it
Returned(copied) ==
  IF copied.ok THEN [outcome |-> "ok", value |-> SampleResult(copied.counts)]
  ELSE [outcome |-> "error", err |-> "TypeError"]

\* the items of the parsed results copied into an empty dictionary
Copied(items) == CopyCounts(items, DOMAIN items, <<>>)

\* the outcomes of processResults on the parse of the result text: a parse
\* error is thrown, or the items are copied (none for a text the model does
\* not cover)
Decoded(results) ==
  IF results.st = "outside" THEN {}
  ELSE IF results.st = "error" THEN {[outcome |-> "error", err |-> "ParseError"]}
  ELSE {Returned(copied) : copied \in Copied(Items(results.val))}

\* processResults: the result text is parsed (a parse error is thrown), its
\* items are copied into the dictionary (a type error is thrown), and the
\* dictionary is returned as the one register
processResults(postJobResponse, jobId) ==
  /\ Running
  /\ \E out \in Decoded(JsonParse(ResultRead(postJobResponse))) :
       ret' = [op |-> "processResults", arg |-> postJobResponse] @@ out
  /\ UNCHANGED <<world, config, cached>>

\* getHeaders keeping what it resolved in the fields of the helper
getHeadersCaching ==
  \E hdr \in generateRequestHeader :
  /\ Running
  /\ ret' = [op |-> "getHeaders"] @@ hdr
  /\ apiKey' = IF hdr.outcome = "ok" THEN hdr.creds.apiKey ELSE apiKey
  /\ refreshKey' = IF hdr.outcome = "ok" THEN hdr.creds.refreshKey ELSE refreshKey
  /\ timeStr' = IF hdr.outcome = "ok" THEN hdr.creds.timeStr ELSE timeStr
  /\ UNCHANGED <<world, config, credentialsPath>>

getHeaders ==
  \E hdr \in generateRequestHeader :
  /\ Running
  /\ ret' = [op |-> "getHeaders"] @@ hdr
  /\ UNCHANGED <<world, config, cached>>

(***************************************************************************)
(* The world: the environment and the files change between calls, as long   *)
(* as the process runs.                                                     *)
(***************************************************************************)
SetHome(h) ==
  /\ Running
  /\ home # h
  /\ home' = h
  /\ ret' = [op |-> "world"]
  /\ UNCHANGED <<env, fs, circuitCodes, config, cached>>

SetEnv(e) ==
  /\ Running
  /\ env # e
  /\ env' = e
  /\ ret' = [op |-> "world"]
  /\ UNCHANGED <<home, fs, circuitCodes, config, cached>>

WriteFile(path, f) ==
  /\ Running
  /\ fs[path] # f
  /\ fs' = [fs EXCEPT ![path] = f]
  /\ ret' = [op |-> "world"]
  /\ UNCHANGED <<home, env, circuitCodes, config, cached>>

\* the caller compiles a batch of kernels
Compile(batch) ==
  /\ Running
  /\ circuitCodes # batch
  /\ circuitCodes' = batch
  /\ ret' = [op |-> "world"]
  /\ UNCHANGED <<home, env, fs, config, cached>>

(***************************************************************************)
(* The inputs drawn.                                                        *)
(***************************************************************************)
\* the sequences over S of length lo..hi
SeqsOf(S, lo, hi) == UNION {[1..n -> S] : n \in lo..hi}

ConfigKeys == {"machine", "url", "credentials"}
Machines   == {Machine2}
Urls       == {UrlNoSlash, UrlSlash, DefaultBaseUrl, EmptyStr}
CredPaths  == {UserPath, EmptyStr}

\* a BackendConfig: any of the three keys, present or not
ConfigsOver(M, U, C) ==
  {c \in UNION {[K -> M \cup U \cup C] : K \in SUBSET ConfigKeys} :
     /\ Has(c, "machine") => c["machine"] \in M
     /\ Has(c, "url") => c["url"] \in U
     /\ Has(c, "credentials") => c["credentials"] \in C}

Envs == {Unset, SetTo(EnvKey1), SetTo(EmptyStr)}
Homes == {Unset, SetTo(HomeDir)}

GoodLines  == <<L_keyABC, L_refreshXYZ>>
GoodLines2 == <<L_keyK2, L_refreshR2>>
Lines == {L_keyABC, L_refreshR2, L_time, L_foo, L_keyEmpty, L_refEmpty, L_noColon,
          L_twoColons, L_blank}
FilesOver(L, n) == {NoFile} \cup {FileOf(l) : l \in SeqsOf(L, 0, n)}
SomeFiles == {NoFile, FileOf(GoodLines), FileOf(GoodLines2)}

ShotCounts == {100, 1000}
Circuits   == [name : {"bell", "ghz"}, shots : {10, 20}, code : {"bc1", "bc2"}]
SomeBatches == {<<>>, <<[name |-> "bell", shots |-> 10, code |-> "bc1"]>>}

JobIds        == {<<"a","b","c">>, <<"j","1","7">>, EmptyStr}
\* submission responses: strings (plain, empty, and with a quote, a
\* backslash, a line feed, a tab and a slash inside), numbers, literals, an
\* array and objects
PostResponses ==
  {JString(<<"a","b","c">>), JString(EmptyStr), JString(<<"a","\"","b">>),
   JString(<<"a","\\","b">>), JString(<<"a","\n","b">>), JString(<<"\t","/">>),
   JUnsigned(<<"1","7">>), JUnsigned(<<"0">>), JUnsigned(MaxUInt64),
   JInteger(<<"5">>), JInteger(<<"0">>), JNull, JBool(TRUE), JBool(FALSE),
   JArray(<<>>), JArray(<<JUnsigned(<<"1">>), JString(<<"x">>)>>), JObject(<<>>),
   JObject((<<"j","o","b">> :> JUnsigned(<<"7">>)) @@ (<<"i","d">> :> JString(<<"a">>)))}

Statuses == {"Completed", "Failed", "Canceled", "Deleted", "Cancelling", "Running",
             "Queued", "Cancelled"}
StatusResponses(n) == SeqsOf([status : Statuses], 1, n)
SomeStatusResponses == {<<[status |-> "Completed"]>>, <<[status |-> "Running"]>>,
                        <<[status |-> "Failed"]>>}

\* result texts: the JSON encodings of objects of counts, and texts that are
\* no JSON (every proper prefix of an encoding, a trailing comma, bare keys)
T_escapedKey == <<"{","\"","0","\\","u","0","0","3","0","\"",":","2","}">>  \* {"0\u0030":2}, the key 00 with its second character escaped
T_maxCount == <<"{","\"","0","0","\"",":","1","8","4","4","6","7","4","4","0","7","3","7","0","9","5","5","1","6","1","5","}">>  \* {"00":18446744073709551615}, the largest count
T_rawLineFeed == <<"{","\"","0","\n","0","\"",":","1","}">>  \* a key with a raw line feed inside
T_badEscape == <<"{","\"","0","\\","x","\"",":","1","}">>  \* {"0\x":1}
T_loneSurrogate == <<"{","\"","\\","u","d","c","0","0","\"",":","1","}">>  \* {"\udc00":1}
T_noFraction == <<"{","\"","0","0","\"",":","1",".","}">>  \* {"00":1.}
T_minusOnly == <<"{","\"","0","0","\"",":","-","}">>  \* {"00":-}
T_array == <<"[","5","]">>  \* [5]
T_number == <<"5">>  \* 5
T_null == <<"n","u","l","l">>  \* null
T_string == <<"\"","7","\"">>  \* "7"
T_negative == <<"{","\"","0","0","\"",":","-","5","}">>  \* {"00":-5}
T_fraction == <<"{","\"","0","0","\"",":","1",".","5","}">>  \* {"00":1.5}
T_exponent == <<"{","\"","0","0","\"",":","5","e","1","}">>  \* {"00":5e1}
T_negFraction == <<"{","\"","0","0","\"",":","-","1",".","5","}">>  \* {"00":-1.5}
T_stringCount == <<"{","\"","0","0","\"",":","\"","7","\"","}">>  \* {"00":"7"}
T_boolCount == <<"{","\"","0","0","\"",":","t","r","u","e","}">>  \* {"00":true}
T_nested == <<"{","\"","0","0","\"",":","{","\"","a","\"",":","[","1","]","}","}">>  \* {"00":{"a":[1]}}
T_mixedArray == <<"[","1",",","\"","x","\"","]">>  \* [1,"x"]
T_backspace == <<"{","\"","0","\\","b","\"",":","1","}">>  \* {"0\b":1}: the escape of a character the model has not
T_manyDigits == <<"{","\"","0","0","\"",":","0",".","1","2","3","4","5","6","7","8","9","0","1","2","3","4","5","6","}">>  \* {"00":0.1234567890123456}: sixteen significant digits
\* texts that are no JSON beyond the truncated ones
BadTexts == {T_rawLineFeed, T_badEscape, T_loneSurrogate, T_noFraction, T_minusOnly}
\* texts that are JSON but no object of counts
OtherTexts == {T_array, T_number, T_null, T_string, T_negative, T_fraction, T_exponent,
               T_negFraction, T_stringCount, T_boolCount, T_nested, T_mixedArray}
\* texts the model does not cover
UncoveredTexts == {T_backspace, T_manyDigits}

Bitstrings == {<<"0","0">>, <<"1","1">>, <<"0","1">>}
Counts     == {<<"0">>, <<"5","0">>}
PairSeqs(n) ==
  {p \in SeqsOf(Bitstrings \X Counts, 0, n) :
     \A i, j \in 1..Len(p) : i # j => p[i][1] # p[j][1]}

RECURSIVE EncodeMembers(_)
EncodeMembers(p) ==
  IF p = <<>> THEN <<>>
  ELSE <<"\"">> \o p[1][1] \o <<"\"", ":">> \o p[1][2]
       \o (IF Len(p) > 1 THEN <<",">> ELSE <<>>) \o EncodeMembers(Tail(p))

EncodeText(p) == <<"{">> \o EncodeMembers(p) \o <<"}">>

\* the object a sequence of pairs with distinct keys encodes
ObjectOf(p) == [b \in {p[i][1] : i \in 1..Len(p)} |->
                 p[CHOOSE i \in 1..Len(p) : p[i][1] = b][2]]

ProperPrefixes(t) == {SubSeq(t, 1, k) : k \in 0..(Len(t) - 1)}
Malformed(n) ==
  UNION {ProperPrefixes(EncodeText(p)) : p \in PairSeqs(n)}
  \cup {<<"{", "\"", "0", "0", "\"", ":", "5", "0", ",", "}">>,
        <<"{", "0", "0", ":", "5", "0", "}">>,
        <<"{", "\"", "0", "0", "\"", ":", "0", "5", "}">>}
  \cup BadTexts
Spaced == << " ", "{", " ", "\"", "1", "1", "\"", " ", ":", " ", "5", "0", " ", "}", " ">>

ResponseOf(t) == <<[status |-> "Completed", result |-> <<t>>]>>
ResultResponses(n) ==
  {ResponseOf(EncodeText(p)) : p \in PairSeqs(n)}
  \cup {ResponseOf(t) : t \in Malformed(n)}
  \cup {ResponseOf(t) : t \in {T_escapedKey, T_maxCount} \cup OtherTexts \cup UncoveredTexts}
  \cup {ResponseOf(Spaced),
        <<[status |-> "Completed", result |-> <<EncodeText(<<>>), <<"{">> >>],
          [status |-> "Failed", result |-> <<Spaced>>]>>,
        <<[status |-> "Running", result |-> << <<"{">>, Spaced>>],
          [status |-> "Completed", result |-> <<Spaced>>]>>}
SomeResultResponses == {ResponseOf(Spaced), ResponseOf(<<"{">>)}

(***************************************************************************)
(* Specifications.                                                          *)
(***************************************************************************)
InitOver(Shots, Files) ==
  /\ home = SetTo(HomeDir)
  /\ env = Unset
  /\ \E f \in Files : fs = [p \in Paths |-> IF p = DefaultPath THEN f ELSE NoFile]
  /\ circuitCodes = <<>>
  /\ backendConfig = <<>>
  /\ shots \in Shots
  /\ baseUrl = DefaultBaseUrl
  /\ machine = DefaultMachine
  /\ timeStr = EmptyStr
  /\ refreshKey = EmptyStr
  /\ apiKey = EmptyStr
  /\ userSpecifiedCredentials = EmptyStr
  /\ credentialsPath = EmptyStr
  /\ ret = [op |-> "none"]

\* the calls and the changes of the world, over the inputs given
NextOver(Cfgs, Hs, Es, Ps, Fs, Bs, Ids, Posts, Polls, Results) ==
  \/ \E cfg \in Cfgs : initialize(cfg)
  \/ createJob
  \/ \E r \in Posts : constructGetJobPathOfResponse(r)
  \/ \E j \in Ids : constructGetJobPath(j)
  \/ \E r \in Polls : jobIsDone(r)
  \/ \E r \in Results, j \in Ids : processResults(r, j)
  \/ getHeaders
  \/ \E h \in Hs : SetHome(h)
  \/ \E e \in Es : SetEnv(e)
  \/ \E p \in Ps, f \in Fs : WriteFile(p, f)
  \/ \E b \in Bs : Compile(b)

Init == InitOver({100}, {NoFile})

\* credentials: every source changes, HOME included, with and without a
\* path configured
Next ==
  NextOver({<<>>, [credentials |-> UserPath], [machine |-> Machine2, url |-> UrlNoSlash]},
           Homes, Envs, Paths, SomeFiles, SomeBatches, {EmptyStr},
           {JUnsigned(<<"0">>)}, {<<[status |-> "Completed"]>>},
           {ResponseOf(Spaced)})
Spec == Init /\ [][Next]_vars

\* config files: every file of up to MaxLines lines at the default path,
\* read by getHeaders and by createJob, with the override set and unset
InitParse == InitOver({100}, FilesOver(Lines, MaxLines))
NextParse ==
  \/ createJob
  \/ getHeaders
  \/ \E e \in {Unset, SetTo(EnvKey1)} : SetEnv(e)
SpecParse == InitParse /\ [][NextParse]_vars

\* polling: every response of up to MaxRecords records
NextStatus ==
  \/ \E cfg \in {<<>>, [machine |-> Machine2]} : initialize(cfg)
  \/ \E r \in StatusResponses(MaxRecords) : jobIsDone(r)
SpecStatus == Init /\ [][NextStatus]_vars

\* payloads: every batch of up to MaxBatch circuits, two shot settings, two
\* machines
NextPayload ==
  \/ \E cfg \in {<<>>, [machine |-> Machine2]} : initialize(cfg)
  \/ \E b \in SeqsOf(Circuits, 0, MaxBatch) : Compile(b)
  \/ \E e \in {Unset, SetTo(EnvKey1)} : SetEnv(e)
  \/ createJob
SpecPayload == InitOver(ShotCounts, {NoFile}) /\ [][NextPayload]_vars

\* results: every result text of up to MaxPairs pairs
NextDecode ==
  \/ \E cfg \in {<<>>, [machine |-> Machine2]} : initialize(cfg)
  \/ \E r \in ResultResponses(MaxPairs), j \in {EmptyStr} : processResults(r, j)
SpecDecode == Init /\ [][NextDecode]_vars

\* URLs: every configuration, every job id and submission response
NextUrl ==
  \/ \E cfg \in ConfigsOver(Machines, Urls, {UserPath}) : initialize(cfg)
  \/ \E r \in PostResponses : constructGetJobPathOfResponse(r)
  \/ \E j \in JobIds : constructGetJobPath(j)
SpecUrl == Init /\ [][NextUrl]_vars

(***************************************************************************)
(* Properties.                                                              *)
(***************************************************************************)
\* ret is the result of a call that resolved credentials
IsResolve(r) == r.op \in {"getHeaders", "createJob"}
Succeeded(r) == IsResolve(r) /\ r.outcome = "ok"
HeadersOf(r) == IF r.op = "createJob" THEN r.value[2] ELSE r.value

\* the source the documented order selects
FirstSource ==
  IF env.set THEN "env" ELSE IF userSpecifiedCredentials # EmptyStr THEN "path" ELSE "default"

\* the credentials the documented resolution yields: the override verbatim,
\* else the parse of the file at the path given, else that of the default file
Documented ==
  LET fresh == Creds(EmptyStr, EmptyStr, EmptyStr)
      path  == IF userSpecifiedCredentials # EmptyStr THEN userSpecifiedCredentials
               ELSE DefaultPath IN
  IF env.set THEN [fresh EXCEPT !.apiKey = env.value]
  ELSE IF (userSpecifiedCredentials # EmptyStr \/ home.set) /\ fileExists(fs, path) THEN findApiKeyInFileQudora(fs, fresh, path)
  ELSE Throw(fresh, [kind |-> "NoConfigFile", names |-> path])

\* C1: with the override unset and the path of a file holding
\* `key : ABC123` and `refresh : XYZ789` given at initialization, a call
\* that resolves credentials resolves apiKey ABC123 and refreshKey XYZ789 and
\* sends Authorization "Bearer ABC123".
C1_ExplicitPathIsParsed ==
  (/\ IsResolve(ret)
   /\ ~env.set
   /\ userSpecifiedCredentials = UserPath
   /\ fs[UserPath] = FileOf(GoodLines))
  => /\ ret.outcome = "ok"
     /\ ret.creds.apiKey = ABC123
     /\ ret.creds.refreshKey = XYZ789
     /\ HeadersOf(ret).Authorization = Bearer \o ABC123

\* the worlds that differ from the current one in lower-priority sources
\* only: the files, the path given and HOME (which locates the default file)
LowerFiles == FilesOver(Lines, 1) \cup SomeFiles
LowerWorlds ==
  IF env.set
    THEN {<<[fs EXCEPT ![p] = f], u, h>> :
            p \in Paths, f \in LowerFiles, u \in CredPaths, h \in Homes}
  ELSE IF userSpecifiedCredentials # EmptyStr
    THEN {<<[fs EXCEPT ![DefaultPath] = f], userSpecifiedCredentials, h>> :
            f \in LowerFiles, h \in Homes}
  ELSE {}

\* C2: resolution selects the first source in the order override, path
\* given, default file, and returns it as the path used; no change of a
\* lower-priority source (the path given, the presence or the contents of a
\* file, the HOME that locates the default file) changes what the
\* resolution yields, whether it starts from empty strings or from the
\* cached fields; with no source at all it fails: with the config-file
\* error when HOME is set, and when it is not, with the outcome of building
\* the default path from a null HOME (an exception or the end of the
\* process), never with a result.
C2_Precedence ==
  /\ Succeeded(ret) =>
       ret.creds.path = (CASE FirstSource = "env" -> env.value
                           [] FirstSource = "path" -> userSpecifiedCredentials
                           [] OTHER -> DefaultPath)
  /\ (ret.op = "createJob" /\ ret.outcome = "ok") => credentialsPath = ret.creds.path
  /\ \A w \in LowerWorlds :
       /\ SearchIn(w[3], env, w[1], EmptyStr, EmptyStr, EmptyStr, w[2])
            = SearchIn(home, env, fs, EmptyStr, EmptyStr, EmptyStr, userSpecifiedCredentials)
       /\ SearchIn(w[3], env, w[1], apiKey, refreshKey, timeStr, w[2])
            = SearchIn(home, env, fs, apiKey, refreshKey, timeStr, userSpecifiedCredentials)
  /\ (IsResolve(ret) /\ FirstSource = "default" /\ home.set /\ ~fs[DefaultPath].exists)
       => ret.outcome = "error" /\ ret.err.kind = "NoConfigFile"
  /\ (IsResolve(ret) /\ FirstSource = "default" /\ ~home.set)
       => /\ ret.outcome \in {"error", "crash"}
          /\ ret.outcome = "error" => ret.err.kind = "LogicError"
          /\ "value" \notin DOMAIN ret /\ "creds" \notin DOMAIN ret
  /\ (IsResolve(ret) /\ FirstSource = "default" /\ home.set /\ fs[DefaultPath].exists
        /\ ret.op = "getHeaders")
       => ret.outcome = Documented.outcome

\* the override and a path are both set, a default file exists, HOME is not
\* set, and a call has resolved
C2_Witness ==
  /\ ret.op = "createJob" /\ ret.outcome = "ok"
  /\ env = SetTo(EnvKey1) /\ home = Unset
  /\ userSpecifiedCredentials = UserPath
  /\ fs[DefaultPath] = FileOf(GoodLines2)
  /\ fs[UserPath] = FileOf(GoodLines)
  /\ credentialsPath = EnvKey1

\* C3: whenever a resolution returns without an error, the apiKey and the
\* refreshKey it resolved are non-empty, and the Authorization header
\* carries a non-empty key.
C3_NonEmptyCredentials ==
  Succeeded(ret) =>
    /\ ret.creds.apiKey # EmptyStr
    /\ ret.creds.refreshKey # EmptyStr
    /\ HeadersOf(ret).Authorization # Bearer

\* C10: the headers getHeaders returns are those of the credentials the
\* current source holds (so two calls with the source unchanged agree, and
\* a changed source shows in the next call), with the three fixed entries.
C10_HeadersFollowSource ==
  (ret.op = "getHeaders" /\ Documented.outcome = "ok")
    => /\ ret.outcome = "ok"
       /\ ret.value = [Authorization |-> Bearer \o Documented.apiKey,
                       ContentType |-> AppJson, Connection |-> KeepAlive,
                       Accept |-> AcceptAll]

\* C4: jobIsDone decides on the status of the first record alone: Failed
\* is a failure error, Canceled, Deleted and Cancelling are a cancellation
\* error, Completed returns true, every other status returns false without
\* an error; any response with the same first record decides the same.
C4_StatusClassification ==
  ret.op = "jobIsDone" =>
    LET status == ret.arg[1].status IN
    /\ status = "Failed" => ret.outcome = "error" /\ ret.err = "JobFailed"
    /\ status \in {"Canceled", "Deleted", "Cancelling"}
         => ret.outcome = "error" /\ ret.err = "JobCancelled"
    /\ status = "Completed" => ret.outcome = "ok" /\ ret.value = TRUE
    /\ status \notin {"Failed", "Canceled", "Deleted", "Cancelling", "Completed"}
         => ret.outcome = "ok" /\ ret.value = FALSE
    /\ \A other \in StatusResponses(MaxRecords) :
         other[1] = ret.arg[1] =>
           Classify(StatusRead(other)) = Classify(StatusRead(ret.arg))

\* a Completed first record followed by a Failed one: done, no error
C4_Witness ==
  /\ ret.op = "jobIsDone"
  /\ ret.arg = <<[status |-> "Completed"], [status |-> "Failed"]>>
  /\ ret.outcome = "ok" /\ ret.value = TRUE

\* the payload of a createJob that returned: the URL, the headers, one
\* document per circuit in batch order, and the batch left as it was passed;
\* shots holds the circuit's own shot count (own) or the helper's
PayloadWith(own) ==
  (ret.op = "createJob" /\ ret.outcome = "ok") =>
    LET docs == ret.value[3] IN
    /\ ret.value[1] = baseUrl
    /\ ret.value[2] = Headers(ret.creds.apiKey)
    /\ Len(docs) = Len(ret.arg)
    /\ \A i \in 1..Len(ret.arg) :
         docs[i] = [name |-> ret.arg[i].name, language |-> QirBitcode,
                    target |-> machine, input_data |-> <<ret.arg[i].code>>,
                    backend_settings |-> "null", shots |-> <<IF own THEN ret.arg[i].shots ELSE shots>>]
    /\ circuitCodes = ret.arg

\* C5 as stated: every document carries its circuit's own shot count.
C5_PayloadOwnShots == PayloadWith(TRUE)

\* C5, amended: createJob returns the base URL, the request headers and one
\* document per circuit in batch order, with the circuit's name, language
\* QIR_BITCODE, the configured machine as target, the circuit's payload as
\* the one input_data entry, backend_settings null, and as shots the one
\* shot count set on the helper, the same in every document; the batch is
\* not modified.
C5_PayloadHelperShots == PayloadWith(FALSE)

\* a batch of two different circuits, neither with the helper's shot count,
\* submitted to the second machine
C5_Witness ==
  /\ ret.op = "createJob" /\ ret.outcome = "ok"
  /\ Len(ret.arg) = 2 /\ ret.arg[1] # ret.arg[2]
  /\ ret.arg[1].shots # shots /\ ret.arg[2].shots # ret.arg[1].shots
  /\ machine = Machine2
  /\ ret.value[3][2].shots = <<shots>>

\* C6: when the first result entry of the first record is the JSON text of
\* an object of counts, processResults returns one histogram, registered
\* under the fixed name, with exactly the keys and counts of the object;
\* when it is no JSON, processResults fails with a parse error and returns
\* nothing.
C6_ResultDecoding ==
  ret.op = "processResults" =>
    LET text == ret.arg[1].result[1] IN
    /\ \A p \in PairSeqs(MaxPairs) :
         text = EncodeText(p) =>
           /\ ret.outcome = "ok"
           /\ Len(ret.value) = 1
           /\ ret.value[1].registerName = RegisterName
           /\ DOMAIN ret.value[1].counts = DOMAIN ObjectOf(p)
           /\ \A b \in DOMAIN ObjectOf(p) : ret.value[1].counts[b] = ObjectOf(p)[b]
    /\ text = T_escapedKey =>
         /\ ret.outcome = "ok"
         /\ ret.value = <<[counts |-> (<<"0", "0">> :> <<"2">>), registerName |-> RegisterName]>>
    /\ text = T_maxCount =>
         /\ ret.outcome = "ok"
         /\ ret.value = <<[counts |-> (<<"0", "0">> :> MaxUInt64), registerName |-> RegisterName]>>
    /\ text \in Malformed(MaxPairs) =>
         /\ ret.outcome = "error" /\ ret.err = "ParseError"
         /\ "value" \notin DOMAIN ret

\* the text {"00":50,"11":50} decoded
C6_Witness ==
  /\ ret.op = "processResults" /\ ret.outcome = "ok"
  /\ ret.arg[1].result[1] =
       <<"{", "\"", "0", "0", "\"", ":", "5", "0", ",", "\"", "1", "1", "\"", ":", "5", "0", "}">>
  /\ DOMAIN ret.value[1].counts = {<<"0", "0">>, <<"1", "1">>}
  /\ ret.value[1].counts[<<"0", "0">>] = <<"5", "0">>
  /\ ret.value[1].counts[<<"1", "1">>] = <<"5", "0">>

ExpectedPath == <<"h","t","t","p","s",":","/","/","a","p","i",".","q","u","d","o","r","a",".","c","o","m","/","j","o","b","s","/","?","j","o","b","_","i","d","=","a","b","c","&","i","n","c","l","u","d","e","_","r","e","s","u","l","t","s","=","T","r","u","e">>

\* every submission response drawn with its JSON text, written out
Stringified ==
  {<<JString(<<"a","b","c">>),
     <<"\"","a","b","c","\"">>>>,
   <<JString(EmptyStr),
     <<"\"","\"">>>>,
   <<JString(<<"a","\"","b">>),
     <<"\"","a","\\","\"","b","\"">>>>,
   <<JString(<<"a","\\","b">>),
     <<"\"","a","\\","\\","b","\"">>>>,
   <<JString(<<"a","\n","b">>),
     <<"\"","a","\\","n","b","\"">>>>,
   <<JString(<<"\t","/">>),
     <<"\"","\\","t","/","\"">>>>,
   <<JUnsigned(<<"1","7">>),
     <<"1","7">>>>,
   <<JUnsigned(<<"0">>),
     <<"0">>>>,
   <<JUnsigned(MaxUInt64),
     <<"1","8","4","4","6","7","4","4","0","7","3","7","0","9","5","5","1","6","1","5">>>>,
   <<JInteger(<<"5">>),
     <<"-","5">>>>,
   <<JInteger(<<"0">>),
     <<"0">>>>,
   <<JNull,
     <<"n","u","l","l">>>>,
   <<JBool(TRUE),
     <<"t","r","u","e">>>>,
   <<JBool(FALSE),
     <<"f","a","l","s","e">>>>,
   <<JArray(<<>>),
     <<"[","]">>>>,
   <<JArray(<<JUnsigned(<<"1">>), JString(<<"x">>)>>),
     <<"[","1",",","\"","x","\"","]">>>>,
   <<JObject(<<>>),
     <<"{","}">>>>,
   <<JObject((<<"j","o","b">> :> JUnsigned(<<"7">>)) @@ (<<"i","d">> :> JString(<<"a">>))),
     <<"{","\"","i","d","\"",":","\"","a","\"",",","\"","j","o","b","\"",":","7","}">>>>}

\* C7: the base URL always ends with the separator, which initialize appends
\* to a configured url only when the url does not end with it; the path of
\* a job is the base URL, "?job_id=", the id and "&include_results=True",
\* where the id of a submission response is the whole response stringified.
C7_UrlConstruction ==
  /\ EndsWith(baseUrl, "/")
  /\ (ret.op = "initialize" /\ Has(ret.arg, "url")) =>
       /\ baseUrl \in {ret.arg["url"], ret.arg["url"] \o <<"/">>}
       /\ EndsWith(ret.arg["url"], "/") => baseUrl = ret.arg["url"]
  /\ (ret.op = "constructGetJobPath" /\ ret.from = "id") =>
       /\ ret.value = baseUrl \o JobIdQuery \o ret.arg \o IncludeResults
       /\ (baseUrl = UrlNoSlash \o <<"/">> /\ ret.arg = <<"a", "b", "c">>)
            => ret.value = ExpectedPath
  /\ (ret.op = "constructGetJobPath" /\ ret.from = "response") =>
       \E e \in Stringified :
         /\ e[1] = ret.arg
         /\ ret.value = baseUrl \o JobIdQuery \o e[2] \o IncludeResults

\* the url https://api.qudora.com/jobs and the id abc
C7_Witness ==
  /\ Has(backendConfig, "url") /\ backendConfig["url"] = UrlNoSlash
  /\ ret.op = "constructGetJobPath" /\ ret.from = "id"
  /\ ret.arg = <<"a", "b", "c">>
  /\ ret.value = ExpectedPath

\* what a line of a config file says, read off its characters
Colons(l)  == {i \in 1..Len(l) : l[i] = ":"}
KeyOf(l)   == LET c == CHOOSE i \in Colons(l) : TRUE IN Trim(SubSeq(l, 1, c - 1))
ValueOf(l) == LET c == CHOOSE i \in Colons(l) : TRUE IN Trim(SubSeq(l, c + 1, Len(l)))
IllFormedLine(l) == Cardinality(Colons(l)) # 1
UnknownLine(l)   == ~IllFormedLine(l) /\ KeyOf(l) \notin {K_key, K_refresh, K_time}
BadLines(f)      == {i \in 1..Len(f) : IllFormedLine(f[i]) \/ UnknownLine(f[i])}
\* the value the file gives a key: that of its last line for the key, or
\* the empty string when it has none
Given(f, k) ==
  LET at == {i \in 1..Len(f) : ~IllFormedLine(f[i]) /\ KeyOf(f[i]) = k} IN
  IF at = {} THEN EmptyStr ELSE ValueOf(f[CHOOSE i \in at : \A j \in at : j <= i])

\* C8: a config file that is parsed fails on its first line that is
\* ill-formed (not exactly one colon: error naming the file) or has an
\* unknown key (error naming the key); without such a line it fails with
\* the empty-API-key error when its key value is empty or absent, with the
\* empty-refresh-key error when its refresh value is; a file with key and
\* refresh is accepted with or without a time line; a call that fails
\* returns no headers and no payload.
C8_ConfigFileRejection ==
  (IsResolve(ret) /\ FirstSource = "default" /\ home.set /\ fs[DefaultPath].exists) =>
    LET f   == fs[DefaultPath].lines
        bad == BadLines(f)
        b   == CHOOSE i \in bad : \A j \in bad : i <= j
    IN
    /\ (bad # {} /\ IllFormedLine(f[b])) =>
         ret.outcome = "error" /\ ret.err = [kind |-> "IllFormed", names |-> DefaultPath]
    /\ (bad # {} /\ UnknownLine(f[b])) =>
         ret.outcome = "error" /\ ret.err = [kind |-> "UnknownKey", names |-> KeyOf(f[b])]
    /\ (bad = {} /\ Given(f, K_key) = EmptyStr /\ Given(f, K_refresh) # EmptyStr) =>
         ret.outcome = "error" /\ ret.err = [kind |-> "EmptyApiKey", names |-> DefaultPath]
    /\ (bad = {} /\ Given(f, K_key) # EmptyStr /\ Given(f, K_refresh) = EmptyStr) =>
         ret.outcome = "error" /\ ret.err = [kind |-> "EmptyRefreshKey", names |-> DefaultPath]
    /\ (bad = {} /\ Given(f, K_key) = EmptyStr /\ Given(f, K_refresh) = EmptyStr) =>
         /\ ret.outcome = "error" /\ ret.err.names = DefaultPath
         /\ ret.err.kind \in {"EmptyApiKey", "EmptyRefreshKey"}
         /\ ret.op = "getHeaders" => ret.err.kind = "EmptyApiKey"
    /\ (bad = {} /\ Given(f, K_key) # EmptyStr /\ Given(f, K_refresh) # EmptyStr) =>
         /\ ret.outcome = "ok"
         /\ ret.creds.apiKey = Given(f, K_key)
         /\ ret.creds.refreshKey = Given(f, K_refresh)
    /\ ret.outcome # "ok" => "value" \notin DOMAIN ret /\ "creds" \notin DOMAIN ret

\* createJob on a file whose second line has the unknown key foo
C8_Witness ==
  /\ ret.op = "createJob" /\ ~env.set /\ home.set
  /\ fs[DefaultPath] = FileOf(<<L_keyABC, L_foo>>)
  /\ ret.outcome = "error"
  /\ ret.err = [kind |-> "UnknownKey", names |-> <<"f", "o", "o">>]

CallOps == {"createJob", "getHeaders", "constructGetJobPath", "jobIsDone", "processResults"}

\* C9 as stated: no call other than initialize changes machine, baseUrl or
\* the cached credential fields.
C9_ReadOnlyAfterInitialize ==
  [][ret'.op \in CallOps => UNCHANGED <<machine, baseUrl, cached>>]_vars

\* C9, amended: machine, baseUrl and the credentials path given are changed
\* by initialize alone; the cached credential fields (apiKey, refreshKey,
\* timeStr, credentialsPath) are changed by createJob alone, which stores
\* what it resolved in them, and by no other call, initialize included.
C9_FieldsAndTheirWriters ==
  [][/\ ret'.op # "initialize" => UNCHANGED <<machine, baseUrl, userSpecifiedCredentials>>
     /\ ret'.op # "createJob" => UNCHANGED cached]_vars

\* after an initialize that set the machine, a createJob has stored the
\* override in the cached fields and getHeaders has run since
C9_Witness ==
  /\ machine = Machine2
  /\ ret.op = "getHeaders"
  /\ apiKey = EnvKey1 /\ credentialsPath = EnvKey1
  /\ env = Unset /\ home.set /\ fs[DefaultPath] = FileOf(GoodLines)

====
